---------------------------- MODULE Spec2Model ----------------------------
(***************************************************************************)
(* A model of dcpyps/scalcslib.py: ideal, asymptotic and exact dwell time  *)
(* probability density calculations for a Q-matrix channel mechanism.      *)
(*                                                                         *)
(* Numbers.  Times (t, tres) are integer ticks.  Rates are integers and    *)
(* quotients are exact rationals <<num, den>>.  A value that the code gets *)
(* from a transcendental library routine (exp, the f0/f1 series, expPDF)   *)
(* is a term <<"name", arguments>>: two such values are equal exactly when *)
(* the same routine is applied to the same arguments.                      *)
(***************************************************************************)
EXTENDS Integers, Sequences, FiniteSets, TLC

(***************************************************************************)
(* Bounds of the model.                                                    *)
(***************************************************************************)
MaxTres == 2
MaxT == 7
MaxLen == 2
\* generators given to ideal_subset_mean_life_time: K states, at most MaxEdges
\* non-zero rates, each in 1..MaxRate
K == 3
MaxRate == 1
MaxEdges == 3
\* sub-generators given to ideal_dwell_time_pdf_components: total rates out of
\* a state in 1..MaxQ, initial vectors in multiples of 1 / PhiDen
MaxQ == 4
PhiDen == 2
\* the root search: brackets end on SAS or on one of GridPoints + 1 points
\* GridStep apart below SBS; a bisection takes at most MaxBisectIter steps
GridPoints == 2
GridStep == 4
MaxBisectIter == 3

\* the library results entering an area: integers 0..MaxLibrary
MaxLibrary == 1

(***************************************************************************)
(* Program constants: the scan interval of asymptotic_roots, in units of   *)
(* 1e-4 / s.                                                               *)
(***************************************************************************)
SAS == -1000000000
SBS == -1

\* the sequence with the elements of f, each evaluated once
AsSeq(f) == f \o <<>>

(***************************************************************************)
(* Exact rational arithmetic.                                              *)
(***************************************************************************)
Abs(x) == IF x < 0 THEN 0 - x ELSE x

RECURSIVE GCD(_, _)
GCD(a, b) == IF b = 0 THEN a ELSE GCD(b, a % b)

Rat(n, d) ==
    LET g == GCD(Abs(n), Abs(d))
        s == IF d < 0 THEN 0 - 1 ELSE 1
    IN  <<(s * n) \div g, (s * d) \div g>>

RInt(n) == <<n, 1>>
RAdd(x, y) == Rat(x[1] * y[2] + y[1] * x[2], x[2] * y[2])
RMul(x, y) == Rat(x[1] * y[1], x[2] * y[2])
RDiv(x, y) == Rat(x[1] * y[2], x[2] * y[1])

RECURSIVE RSum(_)
RSum(s) == IF s = <<>> THEN RInt(0) ELSE RAdd(Head(s), RSum(Tail(s)))

(***************************************************************************)
(* Library routines of the package that scalcslib calls (pdfs, qmatlib).   *)
(***************************************************************************)
\* the float 0 / 0.0
Zero == <<"zero">>

\* pdfs.expPDF(t, tau, area): the multi-exponential sum  sum_i area[i]/tau[i] * exp(-t/tau[i])
expPDF(t, tau, area) == <<"expPDF", t, tau, area>>

\* qml.f0(u, eigvals, gamma00): sum_i gamma00[i] * exp(-eigvals[i] * u)
f0(u, eigvals, gamma00) == <<"f0", u, eigvals, gamma00>>

\* qml.f1(u, eigvals, gamma10, gamma11): sum_i (gamma10[i] + gamma11[i] * u) * exp(-eigvals[i] * u)
f1(u, eigvals, gamma10, gamma11) == <<"f1", u, eigvals, gamma10, gamma11>>

\* a - b on floats
Sub(a, b) == <<"sub", a, b>>

\* t * x on floats
Mul(t, x) == <<"mul", t, x>>

(***************************************************************************)
(* scalcslib.asymptotic_pdf                                                *)
(***************************************************************************)
\* np.extract(t[:] < tres, t)
ExtractBelow(t, tres) == SelectSeq(t, LAMBDA x : x < tres)

\* np.extract(t[:] >= tres, t)
ExtractFrom(t, tres) == SelectSeq(t, LAMBDA x : x >= tres)

\* t2 * pdfs.expPDF(t2 - tres, tau, area)
AsymptoticValue(t, tres, tau, area) == Mul(t, expPDF(t - tres, tau, area))

asymptotic_pdf(t, tres, tau, area) ==
    LET t1 == ExtractBelow(t, tres)
        t2 == ExtractFrom(t, tres)
        apdf2 == AsSeq([j \in 1..Len(t2) |-> AsymptoticValue(t2[j], tres, tau, area)])
    IN  AsSeq([j \in 1..Len(t1) |-> Zero]) \o apdf2

(***************************************************************************)
(* scalcslib.exact_pdf                                                     *)
(***************************************************************************)
\* -1 / roots
NegInv(roots) == AsSeq([i \in 1..Len(roots) |-> Rat(0 - 1, roots[i])])

\* the branch the if / elif chain takes
ExactBranch(t, tres) ==
    IF t < tres THEN "zero"
    ELSE IF (tres < t) /\ (t < 2 * tres) THEN "f0"
    ELSE IF (tres * 2 < t) /\ (t < 3 * tres) THEN "f0f1"
    ELSE "asymptotic"

exact_pdf(t, tres, roots, areas, eigvals, gamma00, gamma10, gamma11) ==
    LET b == ExactBranch(t, tres)
    IN  IF b = "zero" THEN Zero
        ELSE IF b = "f0" THEN f0(t - tres, eigvals, gamma00)
        ELSE IF b = "f0f1" THEN
            Sub(f0(t - tres, eigvals, gamma00),
                f1(t - 2 * tres, eigvals, gamma10, gamma11))
        ELSE expPDF(t - tres, NegInv(roots), areas)

(***************************************************************************)
(* Matrices: a matrix is a sequence of rows.  Integer matrices hold rates; *)
(* rational matrices hold <<num, den>> entries.                            *)
(***************************************************************************)
Dim(M) == Len(M)

RECURSIVE SumInt(_)
SumInt(s) == IF s = <<>> THEN 0 ELSE Head(s) + SumInt(Tail(s))

\* M without row i and column j
Minor(M, i, j) ==
    LET n == Len(M)
        keep(x, s) == IF s < x THEN s ELSE s + 1
    IN  AsSeq([r \in 1..(n - 1) |-> AsSeq([c \in 1..(n - 1) |-> M[keep(i, r)][keep(j, c)]])])

RECURSIVE Det(_)
Det(M) ==
    IF Len(M) = 0 THEN 1
    ELSE IF Len(M) = 1 THEN M[1][1]
    ELSE SumInt(AsSeq([j \in 1..Len(M) |->
            (IF j % 2 = 1 THEN 1 ELSE 0 - 1) * M[1][j] * Det(Minor(M, 1, j))]))

Neg(M) == AsSeq([i \in 1..Len(M) |-> AsSeq([j \in 1..Len(M[i]) |-> 0 - M[i][j]])])

\* M[r1..r2, c1..c2], 1-based and inclusive
Block(M, r1, r2, c1, c2) ==
    AsSeq([i \in 1..(r2 - r1 + 1) |-> AsSeq([j \in 1..(c2 - c1 + 1) |-> M[r1 + i - 1][c1 + j - 1]])])

ToRat(M) == AsSeq([i \in 1..Len(M) |-> AsSeq([j \in 1..Len(M[i]) |-> RInt(M[i][j])])])

\* row vector times matrix, matrix times column of ones, inner product (rationals)
RowTimes(v, M) ==
    AsSeq([j \in 1..Len(M[1]) |-> RSum(AsSeq([i \in 1..Len(v) |-> RMul(v[i], M[i][j])]))])
TimesOnes(M) == AsSeq([i \in 1..Len(M) |-> RSum(M[i])])
Inner(v, w) == RSum(AsSeq([i \in 1..Len(v) |-> RMul(v[i], w[i])]))

(***************************************************************************)
(* qmatlib.pinf: the equilibrium occupancies of a generator Q.             *)
(* p[i] is proportional to the principal minor of -Q without row and       *)
(* column i (the stationary distribution of a chain with one closed class).*)
(***************************************************************************)
PinfWeights(Q) == AsSeq([i \in 1..Len(Q) |-> Det(Minor(Neg(Q), i, i))])

HasEquilibrium(Q) == SumInt(PinfWeights(Q)) > 0

pinf(Q) ==
    LET c == PinfWeights(Q)
    IN  AsSeq([i \in 1..Len(Q) |-> Rat(c[i], SumInt(c))])

(***************************************************************************)
(* qmatlib.eigs: eigenvalues of M and the spectral matrices A[i], with     *)
(* sum A[i] = I and M = sum eigs[i] * A[i].  Closed form for 1 x 1 and for *)
(* 2 x 2 matrices whose eigenvalues are rational.                          *)
(***************************************************************************)
Isqrt(x) == CHOOSE s \in 0..x : s * s <= x /\ x < (s + 1) * (s + 1)

Discriminant(M) ==
    (M[1][1] - M[2][2]) * (M[1][1] - M[2][2]) + 4 * M[1][2] * M[2][1]

\* the matrices this model of eigs can decompose
Decomposable(M) ==
    \/ Len(M) = 1
    \/ /\ Len(M) = 2
       /\ Discriminant(M) >= 0
       /\ Isqrt(Discriminant(M)) * Isqrt(Discriminant(M)) = Discriminant(M)
       /\ (Discriminant(M) = 0 => (M[1][2] = 0 /\ M[2][1] = 0))

Eigenvalues(M) ==
    IF Len(M) = 1 THEN <<RInt(M[1][1])>>
    ELSE LET s == Isqrt(Discriminant(M))
             tr == M[1][1] + M[2][2]
         IN  <<Rat(tr - s, 2), Rat(tr + s, 2)>>

\* (M - other * I) / (own - other)
Projector(M, own, other) ==
    LET d == RAdd(own, RMul(RInt(0 - 1), other))
    IN  AsSeq([i \in 1..2 |-> AsSeq([j \in 1..2 |->
            RDiv(RAdd(RInt(M[i][j]),
                      IF i = j THEN RMul(RInt(0 - 1), other) ELSE RInt(0)), d)])])

UnitProjector(n) ==
    AsSeq([i \in 1..2 |-> AsSeq([j \in 1..2 |-> IF i = n /\ j = n THEN RInt(1) ELSE RInt(0)])])

SpectralMatrices(M) ==
    IF Len(M) = 1 THEN << <<(<<RInt(1)>>)>> >>
    ELSE IF Discriminant(M) = 0 THEN <<UnitProjector(1), UnitProjector(2)>>
    ELSE LET e == Eigenvalues(M)
         IN  <<Projector(M, e[1], e[2]), Projector(M, e[2], e[1])>>

eigs(M) == <<Eigenvalues(M), SpectralMatrices(M)>>

(***************************************************************************)
(* scalcslib.ideal_dwell_time_pdf_components                               *)
(***************************************************************************)
\* the weight without the factor -QAA
ComponentWeightNoRate(phiA, Ai, QAA) ==
    Inner(RowTimes(phiA, Ai), AsSeq([i \in 1..Len(QAA) |-> RInt(1)]))

\* np.dot(np.dot(np.dot(phiA, A[i]), (-QAA)), uA)
ComponentWeight(phiA, Ai, QAA) ==
    Inner(RowTimes(phiA, Ai), TimesOnes(ToRat(Neg(QAA))))

\* components returned as (time constants, areas)
ComponentsAsTausAreas(QAA, phiA) ==
    LET e == eigs(Neg(QAA))
    IN  <<AsSeq([i \in 1..Dim(QAA) |-> RDiv(RInt(1), e[1][i])]),
          AsSeq([i \in 1..Dim(QAA) |->
                    RDiv(ComponentWeight(phiA, e[2][i], QAA), e[1][i])])>>

ideal_dwell_time_pdf_components(QAA, phiA) ==
    LET kA == Dim(QAA)
        e == eigs(Neg(QAA))
        w == AsSeq([i \in 1..kA |-> ComponentWeight(phiA, e[2][i], QAA)])
    IN  <<e[1], w>>

(***************************************************************************)
(* scalcslib.ideal_subset_mean_life_time                                   *)
(***************************************************************************)
\* a test that skips only the states below the subset and lets the first
\* column of the subset through
RatePairsFromFirst(k, state1, state2) ==
    { <<i, j>> \in ((state1 - 1)..(state2 - 1)) \X (0..(k - 1)) :
        (j <= state1 - 1) \/ (j > state2 - 1) }

\* the (i, j) index pairs, 0-based, whose rate the double loop adds
RatePairs(k, state1, state2) ==
    { <<i, j>> \in ((state1 - 1)..(state2 - 1)) \X (0..(k - 1)) :
        (j < state1 - 1) \/ (j > state2 - 1) }

\* np.sum(p[state1-1 : state2])
SubsetOccupancy(p, state1, state2) ==
    RSum(AsSeq([n \in 1..(state2 - state1 + 1) |-> p[state1 - 1 + n]]))

\* the index pairs in the order the double loop visits them
RateLoop(k, state1, state2) ==
    LET rowTerms(i) ==
            SelectSeq(AsSeq([j \in 1..k |-> <<i, j - 1>>]),
                      LAMBDA ij : ij \in RatePairs(k, state1, state2))
        RECURSIVE Rows(_)
        Rows(i) == IF i > state2 - 1 THEN <<>> ELSE rowTerms(i) \o Rows(i + 1)
    IN  Rows(state1 - 1)

\* the terms  Q[i, j] * p[i] / pstot  in loop order
RateTerms(Q, p, pstot, state1, state2) ==
    LET pairs == RateLoop(Dim(Q), state1, state2)
    IN  AsSeq([n \in 1..Len(pairs) |->
            RDiv(RMul(RInt(Q[pairs[n][1] + 1][pairs[n][2] + 1]), p[pairs[n][1] + 1]),
                 pstot)])

\* mean = 1 / s.  s starts as the Python float 0.0 and becomes a numpy float
\* with the first addition: 1 / 0.0 raises ZeroDivisionError, 1 / numpy 0.0
\* is inf (with a warning).
MeanOfRate(terms) ==
    IF terms = <<>> THEN [outcome |-> "raised", error |-> "ZeroDivisionError"]
    ELSE IF RSum(terms) = RInt(0) THEN [outcome |-> "returned", value |-> <<"inf">>]
    ELSE [outcome |-> "returned", value |-> <<"num", RDiv(RInt(1), RSum(terms))>>]

ideal_subset_mean_life_time(Q, state1, state2) ==
    LET p == pinf(Q)
        pstot == SubsetOccupancy(p, state1, state2)
    IN  IF pstot = RInt(0) /\ RatePairs(Dim(Q), state1, state2) # {}
        THEN [outcome |-> "returned", value |-> <<"nan">>]
        ELSE MeanOfRate(RateTerms(Q, p, pstot, state1, state2))

(***************************************************************************)
(* numpy.linalg.inv: the inverse of an integer matrix, by cofactors.       *)
(***************************************************************************)
Inverse(M) ==
    AsSeq([i \in 1..Len(M) |-> AsSeq([j \in 1..Len(M) |->
        Rat((IF (i + j) % 2 = 0 THEN 1 ELSE 0 - 1) * Det(Minor(M, j, i)), Det(M))])])

(***************************************************************************)
(* The Mechanism: Q, the numbers of open (A), short shut (B) and long shut *)
(* (C) states, and the submatrices it derives from them.                   *)
(***************************************************************************)
kF(m) == m.kB + m.kC
kE(m) == m.kA + m.kB
QAA(m) == Block(m.Q, 1, m.kA, 1, m.kA)
QFF(m) == Block(m.Q, m.kA + 1, m.k, m.kA + 1, m.k)
QAF(m) == Block(m.Q, 1, m.kA, m.kA + 1, m.k)
QFA(m) == Block(m.Q, m.kA + 1, m.k, 1, m.kA)

\* qml.phiA / qml.phiF: equilibrium entry probabilities into a subset:
\* occupancies of the other subset times the rates into this one, normalised
EntryVector(p, rates) ==
    LET v == RowTimes(p, ToRat(rates))
    IN  AsSeq([i \in 1..Len(v) |-> RDiv(v[i], RSum(v))])
phiA(m) == EntryVector(AsSeq([i \in 1..kF(m) |-> pinf(m.Q)[m.kA + i]]), QFA(m))
phiF(m) == EntryVector(AsSeq([i \in 1..m.kA |-> pinf(m.Q)[i]]), QAF(m))

(***************************************************************************)
(* scalcslib.ideal_mean_latency_given_start_state                          *)
(***************************************************************************)
\* p[n] = 1 on np.zeros(size): n is a 0-based index, a negative n counts from
\* the end, and an n outside -size..size-1 raises IndexError
StoreOne(size, n) ==
    IF n >= size \/ n < 0 - size THEN [outcome |-> "raised", error |-> "IndexError"]
    ELSE [outcome |-> "returned",
          value |-> AsSeq([i \in 1..size |->
                        IF i - 1 = (IF n < 0 THEN n + size ELSE n) THEN RInt(1)
                        ELSE RInt(0)])]

\* np.dot(np.dot(p, inv(-QXX)), u)[0]
Latency(p, QXX) ==
    IF Det(Neg(QXX)) = 0 THEN [outcome |-> "raised", error |-> "LinAlgError"]
    ELSE [outcome |-> "returned",
          value |-> Inner(p, TimesOnes(Inverse(Neg(QXX))))]

ideal_mean_latency_given_start_state(m, state) ==
    LET open == state <= m.kA
        p == IF open THEN StoreOne(m.kA, state - 1)
             ELSE StoreOne(kF(m), state - m.kA - 1)
    IN  IF p.outcome = "raised" THEN p
        ELSE Latency(p.value, IF open THEN QAA(m) ELSE QFF(m))

(***************************************************************************)
(* scalcslib.asymptotic_roots and the root finder bisectHJC.               *)
(***************************************************************************)
\* the result of bisectHJC.bisection_intervals: kA brackets in [SAS, SBS],
\* ascending and disjoint
Grid == {SAS} \cup {SBS - GridStep * n : n \in 0..GridPoints}

RECURSIVE Ascending(_)
Ascending(S) ==
    IF S = {} THEN <<>>
    ELSE LET m == CHOOSE x \in S : \A y \in S : x <= y
         IN  <<m>> \o Ascending(S \ {m})

Bracketings(kA) ==
    { AsSeq([i \in 1..kA |-> <<Ascending(P)[i], Ascending(P)[i + 1]>>]) :
        P \in {X \in SUBSET Grid : Cardinality(X) = kA + 1} }

\* where the determinant changes sign inside a bracket: a point strictly
\* inside it, or nowhere
NoRoot == SBS + 2
SignChanges(lo, hi) == {lo + 1, (lo + hi) \div 2, hi - 1} \cup {NoRoot}

\* np.zeros(kA)
ZeroRoots(kA) == AsSeq([i \in 1..kA |-> 0])

\* a store into the mirrored place
StoreRootMirrored(roots, i, r) == [roots EXCEPT ![Len(roots) - i] = r]

\* roots[i] = <the root returned by bisect for bracket i>   (i 0-based)
StoreRoot(roots, i, r) == [roots EXCEPT ![i + 1] = r]

\* a loop that searches the same bracket again
SameBracket(i) == i

\* for i in range(kA): the next bracket after bracket i
NextBracket(i) == i + 1

\* a loop that catches the exception and goes on to the next bracket
OnSearchFailureContinue == "continue"

\* what the loop of asymptotic_roots does when bisect raises: nothing catches
\* the exception, it leaves the loop and the function
OnSearchFailure == "propagate"

(***************************************************************************)
(* scalcslib.asymptotic_areas: areas[i] = nom / denom, both contractions   *)
(* of library matrices built from roots[i].  nom[i] is the contraction     *)
(* phiA colA[i] rowA[i] QAF expQFF uF and contraction[i] is                *)
(* rowA[i] W1A colA[i], as the library calls deliver them.                 *)
(***************************************************************************)
\* nom / denom on numpy floats: a zero divisor gives inf, or nan for 0 / 0,
\* with a RuntimeWarning and no exception
NumpyDivide(nom, denom) ==
    IF denom = 0 THEN (IF nom = 0 THEN <<"nan">> ELSE <<"inf">>)
    ELSE <<"num", Rat(nom, denom)>>

\* denom = -roots[i] * np.dot(np.dot(rowA[i], W1A), colA[i])
Denominator(root, contraction) == (0 - root) * contraction

asymptotic_areas(tres, roots, nom, contraction) ==
    [outcome |-> "returned",
     value |-> AsSeq([i \in 1..Len(roots) |->
                  NumpyDivide(nom[i], Denominator(roots[i], contraction[i]))])]

(***************************************************************************)
(* The arrays each function stores into (subscript stores, in-place sorts),*)
(* by owner: "local" arrays are created inside the call, "mec" arrays      *)
(* belong to the Mechanism, "arg" arrays to the caller.                    *)
(***************************************************************************)
\* asymptotic_pdf zeroing the early times in its argument
WrittenInPlace(fn) ==
    CASE fn = "asymptotic_pdf" -> {<<"arg", "t">>}
      [] OTHER -> {}

Written(fn) ==
    CASE fn = "ideal_dwell_time_pdf_components" -> {<<"local", "w">>}
      [] fn = "ideal_mean_latency_given_start_state" -> {<<"local", "p">>}
      [] fn = "asymptotic_roots" -> {<<"local", "roots">>}
      [] fn = "asymptotic_areas" ->
            {<<"local", "areas">>, <<"local", "rowA">>, <<"local", "colA">>}
      [] fn = "exact_GAMAxx" ->
            {<<"local", "gama00">>, <<"local", "gama10">>, <<"local", "gama11">>}
      [] fn = "printout_distributions" -> {<<"local", "areast0">>}
      [] fn = "printout_tcrit" ->
            {<<"local", "taus">>, <<"local", "areas">>, <<"local", "tcrits">>}
      [] OTHER -> {}

\* the caller-owned arrays among those a call stores into
Touches(fn) == {x \in Written(fn) : x[1] # "local"}

(***************************************************************************)
(* scalcslib.printout_tcrit: the components of the ideal shut time pdf,    *)
(* sorted by time constant.                                                *)
(***************************************************************************)
RLess(x, y) == x[1] * y[2] < y[1] * x[2]

\* optimize.sortShell2(taus, areas): ascending in taus, areas carried along
RECURSIVE SortByTau(_)
SortByTau(pairs) ==
    IF pairs = <<>> THEN <<>>
    ELSE LET n == CHOOSE a \in 1..Len(pairs) :
                    \A b \in 1..Len(pairs) :
                        /\ ~RLess(pairs[b][1], pairs[a][1])
                        /\ (b < a => RLess(pairs[a][1], pairs[b][1]))
         IN  <<pairs[n]>> \o
             SortByTau(AsSeq([m \in 1..(Len(pairs) - 1) |-> pairs[IF m < n THEN m ELSE m + 1]]))

\* taus = 1 / eigs; areas = w / eigs; taus, areas = sortShell2(taus, areas)
TcritComponents(eigvals, w) ==
    SortByTau(AsSeq([i \in 1..Len(eigvals) |->
                <<RDiv(RInt(1), eigvals[i]), RDiv(w[i], eigvals[i])>>]))

(***************************************************************************)
(* Inputs.                                                                 *)
(***************************************************************************)
TimeSet == (0 - 1)..MaxT
TresSet == 0..MaxTres

\* (roots, areas) of an asymptotic distribution, one entry per component
RootsAreas == { <<(<<0 - 2>>), (<<1>>)>>, <<(<<0 - 4, 0 - 1>>), (<<1, 3>>)>> }

\* (eigvals, gamma00, gamma10, gamma11) of an exact distribution
Gammas == { <<(<<1, 3>>), (<<2, 5>>), (<<1, 1>>), (<<4, 2>>)>> }

RECURSIVE SeqsUpTo(_, _)
SeqsUpTo(S, n) ==
    IF n = 0 THEN {<<>>}
    ELSE LET shorter == SeqsUpTo(S, n - 1)
         IN  shorter \cup {Append(s, x) : s \in shorter, x \in S}

TimeArrays == SeqsUpTo(TimeSet, MaxLen) \ {<<>>}

\* the contractions of library matrices for n roots
LibraryValues(n) == {AsSeq(f) : f \in [1..n -> 0..MaxLibrary]}

\* generators: K states, rates on at most MaxEdges transitions, rows summing to 0
Transitions == {ij \in (1..K) \X (1..K) : ij[1] # ij[2]}

Generator(rate) ==
    AsSeq([i \in 1..K |-> AsSeq([j \in 1..K |->
        IF i # j THEN (IF <<i, j>> \in DOMAIN rate THEN rate[<<i, j>>] ELSE 0)
        ELSE 0 - SumInt(AsSeq([n \in 1..K |->
                IF n # i /\ <<i, n>> \in DOMAIN rate THEN rate[<<i, n>>] ELSE 0]))])])

Generators ==
    { Q \in UNION { {Generator(rate) : rate \in [E -> 1..MaxRate]} :
                    E \in {X \in SUBSET Transitions : Cardinality(X) <= MaxEdges} } :
        HasEquilibrium(Q) }

\* sub-generators QAA of one or two states: the total rate out of each state
\* at least the rate to the other state, invertible, with rational eigenvalues
SubGenerators ==
    { <<(<<0 - a>>)>> : a \in 1..MaxQ } \cup
    { M \in { <<(<<0 - a, b>>), (<<c, 0 - d>>)>> :
                a \in 1..MaxQ, b \in 0..MaxQ, c \in 0..MaxQ, d \in 1..MaxQ } :
        /\ M[1][2] <= 0 - M[1][1]
        /\ M[2][1] <= 0 - M[2][2]
        /\ Det(M) > 0
        /\ Decomposable(Neg(M)) }

\* initial vectors over n states, summing to 1
InitialVectors(n) ==
    IF n = 1 THEN { <<RInt(1)>> }
    ELSE { <<Rat(x, PhiDen), Rat(PhiDen - x, PhiDen)>> : x \in 0..PhiDen }

\* the mechanisms analysed: three states, one or two of them open
Mechanisms ==
    { [Q |-> <<(<<0 - 3, 3, 0>>), (<<2, 0 - 3, 1>>), (<<0, 2, 0 - 2>>)>>,
       k |-> 3, kA |-> 1, kB |-> 1, kC |-> 1],
      [Q |-> <<(<<0 - 3, 1, 2>>), (<<2, 0 - 2, 0>>), (<<1, 0, 0 - 1>>)>>,
       k |-> 3, kA |-> 2, kB |-> 1, kC |-> 0] }

(***************************************************************************)
(* State.                                                                  *)
(***************************************************************************)
VARIABLES
    mec,      \* the Mechanism the caller owns
    pc,       \* "idle", inside a call, or "done" with the call's result in hand
    call,     \* the current call: function, arguments, outcome, value
    rs,       \* the frame of asymptotic_roots: brackets, loop index, roots, bisection
    touched   \* the caller-owned arrays that calls have stored into

vars == <<mec, pc, call, rs, touched>>

NoCall == [fn |-> "none", outcome |-> "none"]
NoFrame == [caller |-> "none"]

Init ==
    /\ mec \in Mechanisms
    /\ pc = "idle"
    /\ call = NoCall
    /\ rs = NoFrame
    /\ touched = {}

\* a call that runs to its end in one step
Finish(c) ==
    /\ call' = c
    /\ pc' = "done"
    /\ touched' = touched \cup Touches(c.fn)
    /\ UNCHANGED <<mec, rs>>

Call_ideal_dwell_time_pdf ==
    /\ pc = "idle"
    /\ \E t \in 0..MaxT, open \in BOOLEAN :
           LET Qxx == IF open THEN QAA(mec) ELSE QFF(mec)
               phi == IF open THEN phiA(mec) ELSE phiF(mec)
           IN  Finish([fn |-> "ideal_dwell_time_pdf", t |-> t, QAA |-> Qxx, phiA |-> phi,
                       work |-> <<"expQt">>, outcome |-> "returned",
                       value |-> <<"dot", phi, <<"expQt", Qxx, t>>, Neg(Qxx)>>])

Call_ideal_dwell_time_pdf_components ==
    /\ pc = "idle"
    /\ \E Qxx \in SubGenerators :
           \E phi \in InitialVectors(Dim(Qxx)) :
               Finish([fn |-> "ideal_dwell_time_pdf_components", QAA |-> Qxx, phiA |-> phi,
                       work |-> <<"eigs">>, outcome |-> "returned",
                       value |-> ideal_dwell_time_pdf_components(Qxx, phi)])

Call_ideal_subset_mean_life_time ==
    /\ pc = "idle"
    /\ \E Q \in Generators, state1 \in 1..K, state2 \in 1..K :
           /\ state1 <= state2
           /\ LET r == ideal_subset_mean_life_time(Q, state1, state2)
              IN  Finish([fn |-> "ideal_subset_mean_life_time",
                          Q |-> Q, state1 |-> state1, state2 |-> state2,
                          added |-> RateLoop(Dim(Q), state1, state2),
                          work |-> <<"pinf">>, outcome |-> r.outcome,
                          value |-> IF r.outcome = "returned" THEN r.value ELSE <<r.error>>])

Call_ideal_mean_latency_given_start_state ==
    /\ pc = "idle"
    /\ \E state \in 0..(mec.k + 1) :
           LET r == ideal_mean_latency_given_start_state(mec, state)
           IN  Finish([fn |-> "ideal_mean_latency_given_start_state", state |-> state,
                       work |-> <<"inv">>, outcome |-> r.outcome,
                       value |-> IF r.outcome = "returned" THEN <<"num", r.value>>
                                 ELSE <<r.error>>])

Call_asymptotic_pdf ==
    /\ pc = "idle"
    /\ \E t \in TimeArrays, tres \in TresSet, ra \in RootsAreas :
           Finish([fn |-> "asymptotic_pdf",
                   t |-> t, tres |-> tres, tau |-> NegInv(ra[1]), area |-> ra[2],
                   work |-> <<"expPDF">>, outcome |-> "returned",
                   value |-> asymptotic_pdf(t, tres, NegInv(ra[1]), ra[2])])

Call_exact_pdf ==
    /\ pc = "idle"
    /\ \E t \in TimeSet, tres \in TresSet, ra \in RootsAreas, g \in Gammas :
           Finish([fn |-> "exact_pdf",
                   t |-> t, tres |-> tres, roots |-> ra[1], areas |-> ra[2],
                   eigvals |-> g[1], gamma00 |-> g[2], gamma10 |-> g[3], gamma11 |-> g[4],
                   work |-> IF ExactBranch(t, tres) = "zero" THEN <<>>
                            ELSE <<ExactBranch(t, tres)>>,
                   outcome |-> "returned",
                   value |-> exact_pdf(t, tres, ra[1], ra[2], g[1], g[2], g[3], g[4])])

Call_asymptotic_areas ==
    /\ pc = "idle"
    /\ \E tres \in TresSet, ra \in RootsAreas :
           \E nom \in LibraryValues(Len(ra[1])), contraction \in LibraryValues(Len(ra[1])) :
               LET r == asymptotic_areas(tres, ra[1], nom, contraction)
               IN  Finish([fn |-> "asymptotic_areas", tres |-> tres, roots |-> ra[1],
                           nom |-> nom, contraction |-> contraction,
                           work |-> <<"expQt", "expQt", "eGs", "eGs", "phiHJC", "W", "pinf", "dW">>,
                           outcome |-> r.outcome,
                           value |-> r.value])

Call_exact_mean_time ==
    /\ pc = "idle"
    /\ \E tres \in TresSet, open \in BOOLEAN :
           Finish([fn |-> "exact_mean_time", tres |-> tres, open |-> open,
                   work |-> <<"expQt", "expQt", "eGs", "eGs", "phiHJC", "dARSdS">>,
                   outcome |-> "returned",
                   value |-> <<"add", tres, <<"dot", "phiA", "DARS", "QexpQF", open>>>>])

Call_exact_GAMAxx ==
    /\ pc = "idle"
    /\ \E tres \in TresSet, open \in BOOLEAN :
           Finish([fn |-> "exact_GAMAxx", tres |-> tres, open |-> open,
                   work |-> <<"expQt", "expQt", "iGs", "eGs", "eGs", "phiHJC", "Zxx">>,
                   outcome |-> "returned",
                   value |-> <<"gamma", tres, open, mec.k>>])

(***************************************************************************)
(* asymptotic_roots, step by step.                                         *)
(***************************************************************************)
\* enter asymptotic_roots(tres, ...) for kA components on behalf of caller
EnterRoots(caller, tres, kA) ==
    [caller |-> caller, tres |-> tres, kA |-> kA, phase |-> "scan"]

Call_asymptotic_roots ==
    /\ pc = "idle"
    /\ \E tres \in TresSet, open \in BOOLEAN :
        /\ rs' = EnterRoots("direct", tres, IF open THEN mec.kA ELSE kF(mec))
        /\ call' = [fn |-> "asymptotic_roots", tres |-> tres, open |-> open,
                    work |-> <<>>, outcome |-> "running", value |-> <<>>]
    /\ pc' = "roots"
    /\ touched' = touched \cup Touches("asymptotic_roots")
    /\ UNCHANGED mec

\* sro = bisectHJC.bisection_intervals(sas, sbs, ...); roots = np.zeros(kA)
ScanIntervals ==
    /\ pc = "roots" /\ rs.phase = "scan"
    /\ \E sro \in Bracketings(rs.kA) :
        rs' = [caller |-> rs.caller, tres |-> rs.tres, kA |-> rs.kA, phase |-> "loop",
               sro |-> sro, i |-> 0, roots |-> ZeroRoots(rs.kA),
               lo |-> 0, hi |-> 0, iter |-> 0, sign |-> NoRoot,
               found |-> AsSeq([n \in 1..rs.kA |-> NoRoot]),
               tries |-> AsSeq([n \in 1..rs.kA |-> 0]),
               failed |-> FALSE]
    /\ call' = [call EXCEPT !.work = Append(@, "bisection_intervals")]
    /\ UNCHANGED <<mec, pc, touched>>

\* for i in range(kA): bisectHJC.bisect(sro[i,0], sro[i,1], ...) starts
StartBisect ==
    /\ pc = "roots" /\ rs.phase = "loop" /\ rs.i < rs.kA
    /\ \E sign \in SignChanges(rs.sro[rs.i + 1][1], rs.sro[rs.i + 1][2]) :
        rs' = [rs EXCEPT !.phase = "bisect",
                         !.lo = rs.sro[rs.i + 1][1], !.hi = rs.sro[rs.i + 1][2],
                         !.iter = 0, !.sign = sign,
                         !.tries[rs.i + 1] = @ + 1]
    /\ call' = [call EXCEPT !.work = Append(@, "bisect")]
    /\ UNCHANGED <<mec, pc, touched>>

Mid(lo, hi) == (lo + hi) \div 2

\* one halving of the bracket
BisectNarrow ==
    /\ pc = "roots" /\ rs.phase = "bisect"
    /\ rs.sign # NoRoot /\ rs.iter < MaxBisectIter
    /\ Mid(rs.lo, rs.hi) # rs.sign
    /\ rs' = [rs EXCEPT !.iter = @ + 1,
                        !.lo = IF rs.sign > Mid(rs.lo, rs.hi) THEN Mid(rs.lo, rs.hi) ELSE @,
                        !.hi = IF rs.sign < Mid(rs.lo, rs.hi) THEN Mid(rs.lo, rs.hi) ELSE @]
    /\ UNCHANGED <<mec, pc, call, touched>>

\* bisect returns the root; roots[i] = it
BisectFound ==
    /\ pc = "roots" /\ rs.phase = "bisect"
    /\ rs.sign # NoRoot /\ rs.iter < MaxBisectIter
    /\ Mid(rs.lo, rs.hi) = rs.sign
    /\ rs' = [rs EXCEPT !.phase = "loop",
                        !.found[rs.i + 1] = Mid(rs.lo, rs.hi),
                        !.roots = StoreRoot(rs.roots, rs.i, Mid(rs.lo, rs.hi)),
                        !.i = NextBracket(@)]
    /\ UNCHANGED <<mec, pc, call, touched>>

\* bisect fails: no sign change in the bracket, or the iteration budget is spent
BisectFail ==
    /\ pc = "roots" /\ rs.phase = "bisect"
    /\ rs.sign = NoRoot \/ rs.iter >= MaxBisectIter
    /\ IF OnSearchFailure = "propagate"
       THEN /\ rs' = [rs EXCEPT !.phase = "raised", !.failed = TRUE]
            /\ call' = [call EXCEPT !.outcome = "raised"]
            /\ pc' = "done"
       ELSE /\ rs' = [rs EXCEPT !.phase = "loop", !.failed = TRUE, !.i = NextBracket(@)]
            /\ UNCHANGED <<call, pc>>
    /\ UNCHANGED <<mec, touched>>

\* return roots
ReturnRoots ==
    /\ pc = "roots" /\ rs.phase = "loop" /\ rs.i >= rs.kA
    /\ rs' = [rs EXCEPT !.phase = "returned"]
    /\ IF rs.caller = "direct"
       THEN /\ pc' = "done"
            /\ call' = [call EXCEPT !.outcome = "returned", !.value = rs.roots]
       ELSE /\ pc' = rs.caller
            /\ UNCHANGED call
    /\ UNCHANGED <<mec, touched>>

(***************************************************************************)
(* scalcslib.printout_distributions                                        *)
(***************************************************************************)
\* header, ideal open time pdf, then the roots of the asymptotic open time pdf
Call_printout_distributions ==
    /\ pc = "idle"
    /\ \E tres \in TresSet :
        /\ call' = [fn |-> "printout_distributions", tres |-> tres,
                    work |-> <<"iGs", "eigs">>, outcome |-> "running",
                    out |-> <<<<"ideal open",
                                ideal_dwell_time_pdf_components(QAA(mec), phiA(mec))>>>>,
                    passed |-> <<>>, areas |-> <<>>]
        /\ rs' = EnterRoots("pd_open", tres, mec.kA)
    /\ pc' = "roots"
    /\ touched' = touched \cup Touches("printout_distributions")
                          \cup Touches("ideal_dwell_time_pdf_components")
                          \cup Touches("asymptotic_roots")
    /\ UNCHANGED mec

\* areas of the open time pdf, its table, mean and exact coefficients; then the
\* ideal shut time pdf
PrintOpenDistribution ==
    /\ pc = "pd_open"
    /\ \E nom \in LibraryValues(rs.kA), contraction \in LibraryValues(rs.kA) :
        call' = [call EXCEPT
                 !.passed = rs.roots,
                 !.areas = asymptotic_areas(call.tres, rs.roots, nom, contraction).value,
                 !.out = @ \o << <<"asymptotic open", rs.roots>>,
                                 <<"exact open", call.tres>>,
                                 <<"ideal shut",
                                   ideal_dwell_time_pdf_components(QFF(mec), phiF(mec))>> >>]
    /\ pc' = "pd_shut_roots"
    /\ touched' = touched \cup Touches("asymptotic_areas") \cup Touches("exact_GAMAxx")
    /\ UNCHANGED <<mec, rs>>

\* the roots of the asymptotic shut time pdf: A and F change places
ShutRoots ==
    /\ pc = "pd_shut_roots"
    /\ rs' = EnterRoots("pd_shut", call.tres, kF(mec))
    /\ call' = [call EXCEPT !.passed = <<>>, !.areas = <<>>]
    /\ pc' = "roots"
    /\ UNCHANGED <<mec, touched>>

PrintShutDistribution ==
    /\ pc = "pd_shut"
    /\ \E nom \in LibraryValues(rs.kA), contraction \in LibraryValues(rs.kA) :
        call' = [call EXCEPT
                 !.passed = rs.roots,
                 !.areas = asymptotic_areas(call.tres, rs.roots, nom, contraction).value,
                 !.out = @ \o << <<"asymptotic shut", rs.roots>>,
                                 <<"exact shut", call.tres>> >>,
                 !.outcome = "returned"]
    /\ pc' = "done"
    /\ UNCHANGED <<mec, rs, touched>>

(***************************************************************************)
(* scalcslib.printout_occupancies                                          *)
(***************************************************************************)
\* the calls made for state i (0-based), in order
OccupancyCalls(m, i) ==
    (IF i = 0 THEN <<ideal_subset_mean_life_time(m.Q, 1, m.kA)>> ELSE <<>>) \o
    (IF i = m.kA THEN <<ideal_subset_mean_life_time(m.Q, m.kA + 1, m.kA + m.kB)>>
     ELSE <<>>) \o
    (IF i = kE(m) THEN <<ideal_subset_mean_life_time(m.Q, m.kA + m.kB + 1, m.k)>>
     ELSE <<>>) \o
    <<ideal_mean_latency_given_start_state(m, i + 1)>>

RECURSIVE AllOccupancyCalls(_, _)
AllOccupancyCalls(m, i) ==
    IF i >= m.k THEN <<>> ELSE OccupancyCalls(m, i) \o AllOccupancyCalls(m, i + 1)

\* the results up to and including the first call that raises
RECURSIVE UntilRaise(_)
UntilRaise(results) ==
    IF results = <<>> THEN <<>>
    ELSE IF Head(results).outcome = "raised" THEN <<Head(results)>>
    ELSE <<Head(results)>> \o UntilRaise(Tail(results))

Call_printout_occupancies ==
    /\ pc = "idle"
    /\ \E tres \in TresSet :
           LET done == UntilRaise(AllOccupancyCalls(mec, 0))
               ok == \A n \in 1..Len(done) : done[n].outcome = "returned"
           IN  Finish([fn |-> "printout_occupancies", tres |-> tres,
                       work |-> <<"pinf">>,
                       outcome |-> IF ok THEN "returned" ELSE "raised",
                       out |-> done])

(***************************************************************************)
(* scalcslib.printout_tcrit                                                *)
(***************************************************************************)
Criteria == <<"DC", "CN", "Jackson">>

\* scipy.optimize.bisect(f, a, b) returns a point of the bracket [a, b] (an end
\* of it when f vanishes there), or raises when f has one sign at both ends
SearchOutcomes == {"lo", "mid", "hi", "raised"}
BracketPoint(lo, hi, where) ==
    CASE where = "lo" -> lo
      [] where = "hi" -> hi
      [] OTHER -> RDiv(RAdd(lo, hi), RInt(2))

\* tcrits = np.empty((3, comps)): no entry holds a value yet
EmptyTcrits(comps) ==
    AsSeq([c \in 1..3 |-> AsSeq([i \in 1..comps |-> <<"empty">>])])

\* tcrits[c, i] = tcrit   (c 0-based criterion, i 0-based pair)
StoreTcrit(tcrits, c, i, tcrit) ==
    [tcrits EXCEPT ![c + 1] = [@ EXCEPT ![i + 1] = <<"num", tcrit>>]]

\* a loop that catches the exception of a search and goes on to the next one
OnTcritFailureContinue == "continue"

\* what the loop of printout_tcrit does when so.bisect raises: nothing catches
\* the exception, it leaves the loop and the function
OnTcritFailure == "propagate"

\* the loop over the pairs and, for each pair, the three searches in order;
\* search s (from 1) is criterion (s - 1) % 3 of pair (s - 1) \div 3, and res[s]
\* is what so.bisect does in it
RECURSIVE TcritLoop(_, _, _, _)
TcritLoop(taus, res, s, tcrits) ==
    IF s > 3 * (Len(taus) - 1) THEN [outcome |-> "returned", tcrits |-> tcrits]
    ELSE LET i == (s - 1) \div 3
             c == (s - 1) % 3
         IN  IF res[s] = "raised"
             THEN IF OnTcritFailure = "propagate"
                  THEN [outcome |-> "raised", tcrits |-> tcrits]
                  ELSE TcritLoop(taus, res, s + 1, tcrits)
             ELSE TcritLoop(taus, res, s + 1,
                    StoreTcrit(tcrits, c, i,
                               BracketPoint(taus[i + 1], taus[i + 2], res[s])))

\* SUMMARY of tcrit values: one row per pair, read from tcrits
TcritSummary(tcrits, comps) ==
    AsSeq([i \in 1..comps |-> <<tcrits[1][i], tcrits[2][i], tcrits[3][i]>>])

Call_printout_tcrit ==
    /\ pc = "idle"
    /\ LET c == ideal_dwell_time_pdf_components(QFF(mec), phiF(mec))
           comp == TcritComponents(c[1], c[2])
           comps == Len(comp) - 1
           taus == AsSeq([i \in 1..Len(comp) |-> comp[i][1]])
       IN  \E res \in [1..(3 * comps) -> SearchOutcomes] :
               LET r == TcritLoop(taus, AsSeq(res), 1, EmptyTcrits(comps))
               IN  Finish([fn |-> "printout_tcrit",
                           work |-> <<"eigs">>,
                           outcome |-> r.outcome,
                           taus |-> taus,
                           areas |-> AsSeq([i \in 1..Len(comp) |-> comp[i][2]]),
                           res |-> AsSeq(res),
                           tcrits |-> r.tcrits,
                           summary |-> IF r.outcome = "returned"
                                       THEN TcritSummary(r.tcrits, comps)
                                       ELSE <<>>])

\* the caller takes the result (or the exception) and is ready for another call
Return ==
    /\ pc = "done"
    /\ pc' = "idle"
    /\ call' = NoCall
    /\ rs' = NoFrame
    /\ UNCHANGED <<mec, touched>>

Next ==
    \/ Call_ideal_dwell_time_pdf
    \/ Call_ideal_dwell_time_pdf_components
    \/ Call_ideal_subset_mean_life_time
    \/ Call_ideal_mean_latency_given_start_state
    \/ Call_asymptotic_pdf
    \/ Call_exact_pdf
    \/ Call_asymptotic_areas
    \/ Call_exact_mean_time
    \/ Call_exact_GAMAxx
    \/ Call_asymptotic_roots
    \/ ScanIntervals
    \/ StartBisect
    \/ BisectNarrow
    \/ BisectFound
    \/ BisectFail
    \/ ReturnRoots
    \/ Call_printout_distributions
    \/ PrintOpenDistribution
    \/ ShutRoots
    \/ PrintShutDistribution
    \/ Call_printout_occupancies
    \/ Call_printout_tcrit
    \/ Return

Spec == Init /\ [][Next]_vars

\* a call of asymptotic_roots, once entered, keeps running: the interpreter
\* takes the next step of the function whenever there is one
RootsStep ==
    \/ ScanIntervals
    \/ StartBisect
    \/ BisectNarrow
    \/ BisectFound
    \/ BisectFail
    \/ ReturnRoots

FairSpec == Spec /\ WF_vars(RootsStep)

(***************************************************************************)
(* Claims.                                                                 *)
(***************************************************************************)
Returned(fn) == pc = "done" /\ call.fn = fn /\ call.outcome = "returned"

\* the value the interval table of the exact pdf gives at t
ExactByInterval(t, tres, roots, areas, eigvals, gamma00, gamma10, gamma11) ==
    IF t < tres THEN Zero
    ELSE IF t < 2 * tres THEN f0(t - tres, eigvals, gamma00)
    ELSE IF t < 3 * tres THEN
        Sub(f0(t - tres, eigvals, gamma00), f1(t - 2 * tres, eigvals, gamma10, gamma11))
    ELSE expPDF(t - tres, NegInv(roots), areas)

\* C1: for tres > 0 exact_pdf returns 0 for t < tres, f0(t - tres) for
\* tres <= t < 2 tres, f0(t - tres) - f1(t - 2 tres) for 2 tres <= t < 3 tres and
\* the asymptotic sum only for t >= 3 tres; t = tres and t = 2 tres belong to the
\* f0 and the f0 - f1 branch.
C1_ExactPdfByInterval ==
    (Returned("exact_pdf") /\ call.tres > 0) =>
        call.value = ExactByInterval(call.t, call.tres, call.roots, call.areas,
                                     call.eigvals, call.gamma00, call.gamma10,
                                     call.gamma11)

\* C2: for t >= 3 tres the value of exact_pdf equals the value asymptotic_pdf
\* returns for the same t, tres, tau = -1 / roots and areas.
C2_ExactEqualsAsymptotic ==
    (Returned("exact_pdf") /\ call.tres > 0 /\ call.t >= 3 * call.tres) =>
        call.value =
            asymptotic_pdf(<<call.t>>, call.tres, NegInv(call.roots), call.areas)[1]

\* C3: asymptotic_pdf returns 0 for every time t < tres and, for every time
\* t >= tres, the multi-exponential sum evaluated at t - tres, with no additional
\* factor.
C3_AsymptoticPdfIsShiftedSum ==
    Returned("asymptotic_pdf") =>
        LET below == ExtractBelow(call.t, call.tres)
            from == ExtractFrom(call.t, call.tres)
        IN  call.value =
                AsSeq([j \in 1..Len(below) |-> Zero]) \o
                AsSeq([j \in 1..Len(from) |->
                        expPDF(from[j] - call.tres, call.tau, call.area)])

\* C4: a calculation entry point called with a precondition violation
\* (non-positive tres, kA + kF # k, non-square Q, non-zero row sums) rejects the
\* call before any part of the computation is performed and returns no value.
EntryPoints ==
    {"asymptotic_roots", "asymptotic_areas", "exact_pdf", "exact_mean_time",
     "exact_GAMAxx"}

PreconditionViolated ==
    \/ call.tres <= 0
    \/ mec.kA + kF(mec) # mec.k
    \/ \E i \in 1..Len(mec.Q) : Len(mec.Q[i]) # Len(mec.Q) \/ SumInt(mec.Q[i]) # 0

C4_PreconditionViolationRejected ==
    (pc = "done" /\ call.fn \in EntryPoints /\ PreconditionViolated) =>
        (call.outcome = "raised" /\ call.work = <<>>)

InRoots == rs.caller # "none" /\ rs.phase # "scan"

\* C5: when a bracket of asymptotic_roots holds no sign change, or its bisection
\* exceeds the iteration budget, the failure reaches the caller: the search is
\* not retried, and no root vector (partial, or with the initial 0 in the failed
\* place) is returned, passed to asymptotic_areas or printed.
C5_RootSearchFailureIsFatal ==
    InRoots =>
        /\ \A n \in 1..rs.kA : rs.tries[n] <= 1
        /\ rs.failed =>
            /\ rs.phase = "raised"
            /\ pc = "done"
            /\ call.outcome = "raised"
            /\ call.fn = "asymptotic_roots" => call.value = <<>>
            /\ call.fn = "printout_distributions" =>
                /\ call.passed = <<>>
                /\ call.areas = <<>>
                /\ \A n \in 1..Len(call.out) :
                    call.out[n][1] #
                        (IF rs.caller = "pd_open" THEN "asymptotic open"
                         ELSE "asymptotic shut")

C5_Witness ==
    /\ InRoots
    /\ rs.failed
    /\ rs.i = 1
    /\ rs.roots[1] # 0
    /\ call.fn = "printout_distributions"

\* C6: asymptotic_roots returns exactly kA roots, and roots[i] is the root found
\* inside bracket i of the scan, for every i; a search stores only into its own
\* place of the root vector.
C6_RootsByBracketIndex ==
    /\ InRoots =>
        \A n \in 1..rs.kA :
            rs.roots[n] = (IF rs.found[n] = NoRoot THEN 0 ELSE rs.found[n])
    /\ Returned("asymptotic_roots") =>
        /\ Len(call.value) = rs.kA
        /\ \A n \in 1..rs.kA :
            /\ call.value[n] = rs.found[n]
            /\ rs.sro[n][1] < call.value[n]
            /\ call.value[n] < rs.sro[n][2]

C6_Witness ==
    /\ Returned("asymptotic_roots")
    /\ Len(call.value) = 2
    /\ call.value[1] # call.value[2]

\* C7: no call changes the Mechanism (Q, its submatrices, kA, kF) or an array or
\* scalar passed as an argument.
C7_InputsUnchanged == [][mec' = mec /\ touched' = {}]_vars

C7_Witness ==
    /\ pc = "done"
    /\ call.fn = "printout_tcrit"
    /\ Len(call.taus) = 2
    /\ call.taus[1] # call.taus[2]
    /\ touched = {}

\* the areas w[i] / eigs[i] of the components
ComponentAreas(value) ==
    AsSeq([i \in 1..Len(value[1]) |-> RDiv(value[2][i], value[1][i])])

RateOut(Q, state1, state2) ==
    LET p == pinf(Q)
        inside == state1..state2
    IN  RSum(AsSeq([i \in 1..Len(Q) |->
            IF i \in inside
            THEN RSum(AsSeq([j \in 1..Len(Q) |->
                    IF j \in inside THEN RInt(0) ELSE RMul(RInt(Q[i][j]), p[i])]))
            ELSE RInt(0)]))

\* C10: ideal_subset_mean_life_time raises an error and returns no mean whenever
\* the occupancy weighted total rate out of the subset is zero.
C10_ZeroRateOutFails ==
    (pc = "done" /\ call.fn = "ideal_subset_mean_life_time"
        /\ RateOut(call.Q, call.state1, call.state2) = RInt(0)) =>
            call.outcome = "raised"

\* C11: when the denominator -roots[i] * (rowA[i] * dW * colA[i]) of some root
\* is zero, asymptotic_areas fails; it returns no areas vector with an infinite
\* or NaN entry.
ZeroDenominator ==
    \E i \in 1..Len(call.roots) :
        Denominator(call.roots[i], call.contraction[i]) = 0

C11_ZeroDenominatorIsFatal ==
    (pc = "done" /\ call.fn = "asymptotic_areas") =>
        /\ ZeroDenominator => call.outcome = "raised"
        /\ call.outcome = "returned" =>
            \A i \in 1..Len(call.value) : call.value[i][1] = "num"

\* C12: in printout_tcrit, with the components sorted ascending by tau, every
\* search of an adjacent pair either stores a critical time inside the pair's
\* bracket [taus[i], taus[i+1]] at tcrits[criterion, i] or ends the call with
\* the error; the summary table is written only after all searches succeeded
\* and shows exactly the stored critical times, never an entry left as created.
C12_TcritStoredOrFails ==
    (pc = "done" /\ call.fn = "printout_tcrit") =>
        LET comps == Len(call.taus) - 1
        IN  /\ \A i \in 1..comps : ~RLess(call.taus[i + 1], call.taus[i])
            /\ call.outcome \in {"returned", "raised"}
            /\ call.outcome = "raised" <=> (\E s \in 1..(3 * comps) : call.res[s] = "raised")
            /\ call.outcome = "raised" => call.summary = <<>>
            /\ call.outcome = "returned" =>
                /\ Len(call.summary) = comps
                /\ \A i \in 1..comps : \A c \in 1..3 :
                    /\ call.summary[i][c] = call.tcrits[c][i]
                    /\ call.summary[i][c][1] = "num"
                    /\ ~RLess(call.summary[i][c][2], call.taus[i])
                    /\ ~RLess(call.taus[i + 1], call.summary[i][c][2])
                    /\ call.summary[i][c][2] =
                        BracketPoint(call.taus[i], call.taus[i + 1],
                                     call.res[3 * (i - 1) + c])

C12_Witness ==
    /\ Returned("printout_tcrit")
    /\ Len(call.summary) = 1
    /\ RLess(call.taus[1], call.summary[1][2][2])
    /\ RLess(call.summary[1][2][2], call.taus[2])
    /\ call.summary[1][1] # call.summary[1][3]

\* C13: every bisection of asymptotic_roots performs at most MaxBisectIter
\* halvings and then yields a root or fails, at most kA bisections are started,
\* and every call of asymptotic_roots ends, with its kA roots or with the
\* failure.
C13_RootsTerminate ==
    /\ [](pc = "roots" /\ rs.phase = "bisect" => rs.iter <= MaxBisectIter)
    /\ [](pc = "roots" /\ rs.phase \in {"loop", "bisect"} =>
            /\ rs.i <= rs.kA
            /\ SumInt(rs.tries) <= rs.kA)
    /\ (pc = "roots") ~> (pc # "roots")

C13_Witness ==
    /\ pc = "roots"
    /\ rs.phase = "bisect"
    /\ rs.iter = MaxBisectIter
    /\ rs.kA = 2

\* the vector over size states with a single 1 at the 0-based index n
UnitVector(size, n) ==
    AsSeq([i \in 1..size |-> IF i - 1 = n THEN RInt(1) ELSE RInt(0)])

\* C14: ideal_mean_latency_given_start_state uses QAA and the unit vector at
\* index state - 1 for a state in 1..kA, QFF and the unit vector at index
\* state - kA - 1 for a state in kA+1..k, and fails for a state outside 1..k.
C14_LatencyOfNamedState ==
    (pc = "done" /\ call.fn = "ideal_mean_latency_given_start_state") =>
        LET expected ==
                IF call.state \in 1..mec.kA
                THEN Latency(UnitVector(mec.kA, call.state - 1), QAA(mec))
                ELSE Latency(UnitVector(kF(mec), call.state - mec.kA - 1), QFF(mec))
        IN  IF call.state \in 1..mec.k
            THEN /\ call.outcome = expected.outcome
                 /\ call.outcome = "returned" => call.value = <<"num", expected.value>>
            ELSE call.outcome = "raised"

\* C15: in ideal_subset_mean_life_time the rates added are those of exactly the
\* index pairs (i, j) with i inside the subset state1..state2 and j outside it,
\* each once; no rate between two states of the subset, nor a diagonal entry, is
\* added, and the mean is the subset occupancy over the occupancy weighted sum
\* of the rates leaving the subset.
C15_RatesLeavingSubset ==
    (pc = "done" /\ call.fn = "ideal_subset_mean_life_time") =>
        LET k == Len(call.Q)
            inside == call.state1..call.state2
            leaving == {ij \in (1..k) \X (1..k) : ij[1] \in inside /\ ij[2] \notin inside}
            out == RateOut(call.Q, call.state1, call.state2)
        IN  /\ {<<call.added[n][1] + 1, call.added[n][2] + 1>> : n \in 1..Len(call.added)}
                    = leaving
            /\ Len(call.added) = Cardinality(leaving)
            /\ (call.outcome = "returned" /\ call.value[1] = "num") =>
                /\ out # RInt(0)
                /\ call.value[2] =
                    RDiv(SubsetOccupancy(pinf(call.Q), call.state1, call.state2), out)

C15_Witness ==
    /\ Returned("ideal_subset_mean_life_time")
    /\ call.value[1] = "num"
    /\ call.state1 = 1
    /\ call.state2 = 2
    /\ call.Q[1][2] > 0
    /\ call.Q[2][3] > 0

\* C16: for an input array t in any order, the output of asymptotic_pdf has the
\* length of t and its i-th element belongs to the i-th time: 0 where
\* t[i] < tres, the value of the formula at t[i] where t[i] >= tres.
C16_AsymptoticPdfElementwise ==
    Returned("asymptotic_pdf") =>
        /\ Len(call.value) = Len(call.t)
        /\ \A i \in 1..Len(call.t) :
            call.value[i] =
                (IF call.t[i] < call.tres THEN Zero
                 ELSE AsymptoticValue(call.t[i], call.tres, call.tau, call.area))

=============================================================================
